---- MODULE Spec2Model ----
(***************************************************************************)
(* Model of the event-driven handlers of atlan-python-samples:             *)
(*   events/lambda_scorer.py    (LambdaScorer, _create_cm_if_not_exists)   *)
(*   events/lambda_enforcer.py  (LambdaEnforcer)                           *)
(*   custom_metadata/update_cm_on_assets.py (update_custom_metadata)       *)
(* running as concurrent invocations against one catalog: a typedef        *)
(* registry, a badge store and one entity.                                 *)
(*                                                                         *)
(* An optional value (Python None / empty collection / unset attribute)    *)
(* is the empty set; a present value v is the singleton {v}.               *)
(*                                                                         *)
(* Every collaborator call (typedef lookup, create_typedef, badge upsert,  *)
(* entity fetch, write-back) is one atomic step.  A collaborator failure   *)
(* is one of the SDK errors the source distinguishes: NotFoundError,       *)
(* ConflictError, or another AtlanException.                               *)
(***************************************************************************)
EXTENDS Integers, Sequences, FiniteSets, TLC

\* ------------------------------------------------------------------ bounds
\* Number of concurrently running scorer handler instances.
NumScorers == 2
\* Invocations (handler events and runs of the update script) in one run.
MaxEvents == 2
\* Notifications the catalog has emitted for the entity before the run starts
\* (more than one: notifications may be duplicated).
InitialEvents == 2
\* Sequential runs of the deployment script or of the star script.
MaxRuns == 3
\* Longest list of usernames given to star_asset.
MaxUsernames == 2

\* --------------------------------------------------------------- constants
CM_DAAP == "DaaP"
CM_ATTR_DAAP_SCORE == "Score"
\* The attribute CM_ATTR_DAAP_SCORE of the custom metadata CM_DAAP, as a field
\* of an asset and as a search attribute.
DAAP_SCORE == "DaaP.Score"
CUSTOM_METADATA_NAME == "Quality Data"
ENUM_NAME == "QDRating"
ENFORCEMENT_MESSAGE == "To be verified, an asset must have a description, at least one owner, and lineage."

SCORED_ATTRS ==
    << "description", "userDescription", "ownerUsers", "ownerGroups",
       "meanings", "__hasLineage", "classifications", "inputToProcesses",
       "outputFromProcesses", "assignedEntities", "seeAlso", "links" >>

REQUIRED_ATTRS ==
    << "description", "userDescription", "ownerUsers", "ownerGroups",
       "__hasLineage", "inputToProcesses", "outputFromProcesses",
       "certificateStatus" >>

None == {}

\* --------------------------------------------------------------- data model
\* The attributes of an asset that the handlers read or write.
Fields ==
    { "typeName", "qualifiedName",
      "description", "owners", "lineage",
      "certificateStatus", "certificateStatusMessage",
      "assignedTerms", "atlanTags",
      "seeAlso", "links", "assignedEntities", "readme",
      "starredBy", "starredDetailsList", "starredCount",
      DAAP_SCORE, CUSTOM_METADATA_NAME }

\* What Asset.trim_to_required() keeps: the identifying attributes.
RequiredFields == { "typeName", "qualifiedName" }

\* The custom-metadata attributes among Fields (business attributes).
CustomMetadataFields == { DAAP_SCORE, CUSTOM_METADATA_NAME }

Range(s) == { s[i] : i \in 1..Len(s) }

\* The model field a search attribute name selects.
AttrField(a) ==
    CASE a \in {"description", "userDescription"} -> "description"
      [] a \in {"ownerUsers", "ownerGroups"} -> "owners"
      [] a \in {"__hasLineage", "inputToProcesses", "outputFromProcesses"} -> "lineage"
      [] a = "meanings" -> "assignedTerms"
      [] a = "classifications" -> "atlanTags"
      [] OTHER -> a

\* CustomMetadataCache.get_attributes_for_search_results(name): the search
\* attribute names of the custom metadata set's attributes.
GetAttributesForSearchResults(name) ==
    IF name = CM_DAAP THEN << DAAP_SCORE >> ELSE << CUSTOM_METADATA_NAME >>

\* get_current_view_of_asset / client.search(attributes=...): the entity
\* restricted to its identifying attributes and the requested projection.
GetCurrentViewOfAsset(e, attrs, includeMeanings, includeTags) ==
    LET wanted == RequiredFields
                  \cup { AttrField(a) : a \in Range(attrs) }
                  \cup (IF includeMeanings THEN {"assignedTerms"} ELSE {})
                  \cup (IF includeTags THEN {"atlanTags"} ELSE {})
    IN  [ f \in Fields |-> IF f \in wanted THEN e[f] ELSE None ]

\* Mutant of trim_to_required: the whole fetched asset is written back.
TrimKeepsEverything(a) == a

\* Asset.trim_to_required()
TrimToRequired(a) ==
    [ f \in Fields |-> IF f \in RequiredFields THEN a[f] ELSE None ]

\* The attributes a change-set carries (those it would assign).
Carried(c) == { f \in Fields : c[f] # None }

\* Mutant of the merge write-back: client.upsert_replacing_cm, which replaces
\* the entity's custom metadata by what the request carries.
UpsertReplacingCm(e, c) ==
    [ f \in Fields |-> IF f \in CustomMetadataFields THEN c[f]
                       ELSE IF c[f] # None THEN c[f] ELSE e[f] ]

\* client.upsert_merging_cm(asset): attributes and custom metadata the request
\* carries are assigned, everything else on the entity is left as it is.
UpsertMergingCm(e, c) ==
    [ f \in Fields |-> IF c[f] # None THEN c[f] ELSE e[f] ]

\* The catalog holds no entity by the qualified name the events are about.
NoEntity == [ f \in Fields |-> None ]

Exists(e) == e["qualifiedName"] # None

\* ----------------------------------------------------------------- policies
IsTerm(a) == a["typeName"] = {"AtlasGlossaryTerm"}

\* asset.type_name.startswith("AtlasGlossary")
StartsWithAtlasGlossary(a) ==
    a["typeName"] \subseteq {"AtlasGlossary", "AtlasGlossaryCategory", "AtlasGlossaryTerm"}

has_description(a) == a["description"] # None
has_owner(a) == a["owners"] # None
has_lineage(a) == a["lineage"] # None

\* Mutant of the readme score: the three length thresholds add up.
ReadmeScoreCumulative(a) ==
    IF a["readme"] = None THEN 0
    ELSE LET len == CHOOSE n \in a["readme"] : TRUE
         IN  (IF len > 1000 THEN 20 ELSE 0)
             + (IF len > 500 THEN 10 ELSE 0)
             + (IF len > 100 THEN 5 ELSE 0)

\* The readme's description length (client.get_asset_by_guid on the readme).
ReadmeScore(a) ==
    IF a["readme"] = None THEN 0
    ELSE LET len == CHOOSE n \in a["readme"] : TRUE
         IN  IF len > 1000 THEN 20
             ELSE IF len > 500 THEN 10
             ELSE IF len > 100 THEN 5
             ELSE 0

CertificateScore(a) ==
    IF a["certificateStatus"] = {"DRAFT"} THEN 15
    ELSE IF a["certificateStatus"] = {"VERIFIED"} THEN 25
    ELSE 0

\* LambdaScorer.calculate_changes, lines 128-159: the score.
ComputeScore(a) ==
    IF IsTerm(a)
    THEN (IF has_description(a) THEN 15 ELSE 0)
         + (IF a["seeAlso"] # None THEN 10 ELSE 0)
         + (IF a["links"] # None THEN 10 ELSE 0)
         + (IF a["assignedEntities"] # None THEN 20 ELSE 0)
         + CertificateScore(a)
         + ReadmeScore(a)
    ELSE IF ~StartsWithAtlasGlossary(a)
    THEN (IF has_description(a) THEN 15 ELSE 0)
         + (IF has_owner(a) THEN 20 ELSE 0)
         + (IF has_lineage(a) THEN 20 ELSE 0)
         + (IF a["assignedTerms"] # None THEN 20 ELSE 0)
         + (IF a["atlanTags"] # None THEN 20 ELSE 0)
    ELSE 1

\* The Score stored in an asset's DaaP custom metadata, -1 when there is none.
StoredScore(a) ==
    IF a[DAAP_SCORE] # None
    THEN CHOOSE s \in a[DAAP_SCORE] : TRUE
    ELSE -1

\* Mutant of has_changes: every recomputed score counts as a change.
HasChangesAlways(original, modified) == TRUE

\* LambdaScorer.has_changes
HasChanges(original, modified) ==
    StoredScore(original) # StoredScore(modified)

\* LambdaScorer.calculate_changes, lines 161-166
ScorerCalculateChanges(a) ==
    LET score == ComputeScore(a)
    IN  IF score >= 0
        THEN LET revised == [ TrimToRequired(a) EXCEPT ![DAAP_SCORE] = {score} ]
             IN  IF HasChanges(a, revised) THEN << revised >> ELSE << >>
        ELSE << >>

\* Mutant of the enforcer: the certificate status is not looked at.
EnforcerIgnoresCertificate(a) ==
    IF ~has_description(a) \/ ~has_owner(a) \/ ~has_lineage(a)
    THEN << [ TrimToRequired(a) EXCEPT
                !["certificateStatus"] = {"DRAFT"},
                !["certificateStatusMessage"] = {ENFORCEMENT_MESSAGE} ] >>
    ELSE << >>

\* Mutant of the enforcer: enforcement only when all three are missing.
EnforcerRequiresAllMissing(a) ==
    IF a["certificateStatus"] = {"VERIFIED"}
       /\ ~has_description(a) /\ ~has_owner(a) /\ ~has_lineage(a)
    THEN << [ TrimToRequired(a) EXCEPT
                !["certificateStatus"] = {"DRAFT"},
                !["certificateStatusMessage"] = {ENFORCEMENT_MESSAGE} ] >>
    ELSE << >>

\* LambdaEnforcer.calculate_changes
EnforcerCalculateChanges(a) ==
    IF a["certificateStatus"] = {"VERIFIED"}
    THEN IF ~has_description(a) \/ ~has_owner(a) \/ ~has_lineage(a)
         THEN << [ TrimToRequired(a) EXCEPT
                     !["certificateStatus"] = {"DRAFT"},
                     !["certificateStatusMessage"] = {ENFORCEMENT_MESSAGE} ] >>
         ELSE << >>
    ELSE << >>

\* update_custom_metadata, lines 70-76: the asset sent to the catalog.
UpdateCustomMetadataRequest(a, rating, passed, failed, reports) ==
    [ TrimToRequired(a) EXCEPT
        ![CUSTOM_METADATA_NAME] =
            { [ Rating |-> rating, Passed |-> passed,
                Failed |-> failed, Reports |-> reports ] } ]

\* -------------------------------------------------------------------- state
Scorers == 1..NumScorers
Enforcer == NumScorers + 1
Updater == NumScorers + 2
Handlers == Scorers \cup {Enforcer}
Deployer == NumScorers + 3
Starrer == NumScorers + 4
Procs == Handlers \cup {Updater, Deployer, Starrer}

Kind(p) == IF p \in Scorers THEN "scorer"
           ELSE IF p = Enforcer THEN "enforcer"
           ELSE IF p = Updater THEN "updater"
           ELSE IF p = Deployer THEN "deployer" ELSE "starrer"

\* The names of the typedefs the programs look up or create.
TypedefNames == { CM_DAAP, ENUM_NAME, CUSTOM_METADATA_NAME }

\* Identifiers the registry may give a new typedef.
Ids == {"cm-id"}

\* Invocations started so far.
RECURSIVE SumHandled(_, _)
SumHandled(h, S) ==
    IF S = {} THEN 0
    ELSE LET p == CHOOSE q \in S : TRUE IN h[p] + SumHandled(h, S \ {p})

NoCalls == [ lookup |-> 0, create |-> 0, badge |-> 0, fetch |-> 0, write |-> 0 ]

VARIABLES
    registry,     \* typedef name -> optional identifier (the catalog's registry)
    badges,       \* names of the badges the catalog holds
    entity,       \* the catalog's entity
    cache,        \* per process: CustomMetadataCache's identifier for DaaP
    scoredAttrs,  \* per process: the module-level list SCORED_ATTRS
    pc,           \* per process: position in the current invocation
    payloadOk,    \* per invocation: the event carries an entity payload with an asset
    ret,          \* per invocation: what _create_cm_if_not_exists returned
    lkRes,        \* per invocation: outcome of the last typedef lookup
    createRes,    \* per invocation: outcome of create_typedef
    badgeRes,     \* per invocation: outcome of the badge upsert
    snap,         \* per invocation: the fetched snapshot
    changes,      \* per invocation: the list calculate_changes returned
    outcome,      \* per invocation: the reconciliation outcome
    calls,        \* per invocation: collaborator calls issued
    handled,      \* per process: events received so far
    written,      \* per process: the last change-set it wrote back
    emitted,      \* notifications the catalog has emitted for the entity
    typedefCalls, \* per typedef name: create_typedef calls of the deployment script
    usernames     \* the usernames the star script passes to star_asset

vars == << registry, badges, entity, cache, scoredAttrs, pc, payloadOk, ret,
           lkRes, createRes, badgeRes, snap, changes, outcome, calls, handled,
           written, emitted, typedefCalls, usernames >>

provVars == << ret, lkRes, createRes, badgeRes >>

\* ------------------------------------------------------------ initial states
Opt(S) == {None} \cup { {v} : v \in S }

\* An asset of the catalog with the given attributes and no custom metadata.
MkAsset(type, desc, own, lin, cert, terms, tags, see, lnk, ents, rd) ==
    [ f \in Fields |->
        CASE f = "typeName" -> {type}
          [] f = "qualifiedName" -> {"default/db/asset"}
          [] f = "description" -> desc
          [] f = "owners" -> own
          [] f = "lineage" -> lin
          [] f = "certificateStatus" -> cert
          [] f = "assignedTerms" -> terms
          [] f = "atlanTags" -> tags
          [] f = "seeAlso" -> see
          [] f = "links" -> lnk
          [] f = "assignedEntities" -> ents
          [] f = "readme" -> rd
          [] OTHER -> None ]

\* The entities a run starts from: a table or a glossary, verified, owned, with lineage, a tag and a link, documented or not.
BaseEntities ==
    { MkAsset(t, d, {"jane"}, {"yes"}, c, {}, {"pii"}, {}, {"link"}, {}, {})
        : t \in {"Table", "AtlasGlossary"},
          d \in Opt({"text"}),
          c \in {{"VERIFIED"}} }

\* The Score stored so far: none, or 60 (what an undocumented table of
\* BaseEntities scores; stale for every other entity).
InitEntities ==
    { [ e EXCEPT ![DAAP_SCORE] = s ] : e \in BaseEntities, s \in Opt({60}) }

\* The state after every module is loaded, given what the catalog holds.
\* An entity carries a Score only if the DaaP custom metadata exists.
InitState(reg, bdg, ents) ==
    /\ registry = reg
    /\ badges = bdg
    /\ entity \in ents
    /\ cache = [ p \in Scorers |-> None ]
    /\ scoredAttrs = [ p \in Scorers |-> SCORED_ATTRS ]
    /\ pc = [ p \in Procs |-> "idle" ]
    /\ payloadOk = [ p \in Procs |-> FALSE ]
    /\ ret = [ p \in Procs |-> None ]
    /\ lkRes = [ p \in Procs |-> "none" ]
    /\ createRes = [ p \in Procs |-> "none" ]
    /\ badgeRes = [ p \in Procs |-> "none" ]
    /\ snap = [ p \in Procs |-> None ]
    /\ changes = [ p \in Procs |-> << >> ]
    /\ outcome = [ p \in Procs |-> "none" ]
    /\ calls = [ p \in Procs |-> NoCalls ]
    /\ handled = [ p \in Procs |-> 0 ]
    /\ written = [ p \in Procs |-> None ]
    /\ emitted = InitialEvents
    /\ typedefCalls = [ n \in TypedefNames |-> 0 ]
    /\ usernames = << >>

InitWith(reg, bdg) ==
    InitState([ n \in TypedefNames |-> IF n = CM_DAAP THEN reg ELSE None ], bdg,
              IF reg = None THEN BaseEntities ELSE InitEntities)

\* The DaaP custom metadata does not exist yet: the first events provision it.
Init == InitWith(None, {})

\* The DaaP custom metadata and its badge have been provisioned before.
InitProvisioned == \E i \in Ids : InitWith({i}, {CM_ATTR_DAAP_SCORE})

\* -------------------------------------------------- the schema provisioner
\* CustomMetadataCache.get_id_for_name(CM_DAAP) as called by process p: the
\* possible <<cache afterwards, outcome>>.  A cached identifier is returned
\* without a remote call; otherwise the cache is refreshed from the registry,
\* which may fail, and the name is looked up again.
GetIdForName(p) ==
    IF cache[p] # None
    THEN { << cache[p], "found" >> }
    ELSE { << cache[p], "error" >>,
           << registry[CM_DAAP], IF registry[CM_DAAP] # None THEN "found" ELSE "notfound" >> }

\* client.create_typedef(cm_def): the possible <<registry afterwards, outcome>>.
\* The registry holds at most one typedef per name: a second create conflicts.
CreateTypedef ==
    { << registry, "error" >> }
    \cup (IF registry[CM_DAAP] # None
          THEN { << registry, "conflict" >> }
          ELSE { << [ registry EXCEPT ![CM_DAAP] = {i} ], "ok" >> : i \in Ids })

\* Line 44 and its handlers (45, 93): where the first lookup's outcome leads.
AfterFirstLookup(res) ==
    CASE res = "found" -> "validate"
      [] res = "notfound" -> "create"
      [] OTHER -> "validate"

\* Mutant of the conflict handler: ConflictError handled like any other
\* AtlanException of create_typedef.
AfterCreateConflictIsError(res) ==
    CASE res = "ok" -> "badge"
      [] OTHER -> "validate"

\* Mutant of the handling of create_typedef's outcome: a conflict is taken
\* for a creation.
AfterCreateConflictUpsertsBadge(res) ==
    CASE res \in {"ok", "conflict"} -> "badge"
      [] OTHER -> "validate"

\* Mutant of the handling of create_typedef's outcome: after a failed
\* creation the function carries on as if the schema had been created.
AfterCreateErrorContinues(res) ==
    CASE res = "conflict" -> "lookup2"
      [] OTHER -> "badge"

\* Mutant of the handling of create_typedef's outcome: a failed creation is
\* tried again.
AfterCreateRetriesOnError(res) ==
    CASE res = "ok" -> "badge"
      [] res = "conflict" -> "lookup2"
      [] OTHER -> "create"

\* Line 55 and its handlers (85, 91): where create_typedef's outcome leads.
AfterCreate(res) ==
    CASE res = "ok" -> "badge"
      [] res = "conflict" -> "lookup2"
      [] OTHER -> "validate"

\* Mutant of the badge handler: a badge failure fails the creation.
AfterBadgeFailureFails(res) ==
    IF res = "ok" THEN "lookup3" ELSE "validate"

\* Lines 79-84: whatever the badge upsert does, the identifier is looked up.
AfterBadge(res) == "lookup3"

\* Mutant of a lookup's return: nothing is returned.
ReturnNothing(res, id) == None

\* Mutant of a lookup's return: a failed lookup falls back on the name.
ReturnNameOnFailure(res, id) == IF res = "found" THEN id ELSE {CM_DAAP}

\* Lines 44, 84, 88: the lookup's identifier is returned; when the lookup
\* raises, the handler prints and the function returns None.
ReturnOfLookup(res, id) == IF res = "found" THEN id ELSE None

Call(p, what) == [ calls EXCEPT ![p][what] = @ + 1 ]

\* Every lookup counts as a call of get_id_for_name.
FirstLookup(p) ==
    /\ pc[p] = "lookup1"
    /\ \E o \in GetIdForName(p) :
        /\ cache' = [ cache EXCEPT ![p] = o[1] ]
        /\ lkRes' = [ lkRes EXCEPT ![p] = o[2] ]
        /\ ret' = [ ret EXCEPT ![p] = ReturnOfLookup(o[2], o[1]) ]
        /\ pc' = [ pc EXCEPT ![p] = AfterFirstLookup(o[2]) ]
    /\ calls' = Call(p, "lookup")
    /\ UNCHANGED << registry, badges, entity, scoredAttrs, payloadOk, createRes,
                    badgeRes, snap, changes, outcome, handled, written, emitted >>
    /\ UNCHANGED typedefCalls
    /\ UNCHANGED usernames

Create(p) ==
    /\ pc[p] = "create"
    /\ \E o \in CreateTypedef :
        /\ registry' = o[1]
        /\ createRes' = [ createRes EXCEPT ![p] = o[2] ]
        /\ pc' = [ pc EXCEPT ![p] = AfterCreate(o[2]) ]
    /\ calls' = Call(p, "create")
    /\ UNCHANGED << badges, entity, cache, scoredAttrs, payloadOk, ret, lkRes,
                    badgeRes, snap, changes, outcome, handled, written, emitted >>
    /\ UNCHANGED typedefCalls
    /\ UNCHANGED usernames

UpsertBadge(p) ==
    /\ pc[p] = "badge"
    /\ \E r \in {"ok", "fail"} :
        /\ badges' = IF r = "ok" THEN badges \cup {CM_ATTR_DAAP_SCORE} ELSE badges
        /\ badgeRes' = [ badgeRes EXCEPT ![p] = r ]
        /\ pc' = [ pc EXCEPT ![p] = AfterBadge(r) ]
    /\ calls' = Call(p, "badge")
    /\ UNCHANGED << registry, entity, cache, scoredAttrs, payloadOk, ret, lkRes,
                    createRes, snap, changes, outcome, handled, written, emitted >>
    /\ UNCHANGED typedefCalls
    /\ UNCHANGED usernames

\* Line 84 (after a successful create) and line 88 (after a conflict).
SecondLookup(p) ==
    /\ pc[p] \in {"lookup2", "lookup3"}
    /\ \E o \in GetIdForName(p) :
        /\ cache' = [ cache EXCEPT ![p] = o[1] ]
        /\ lkRes' = [ lkRes EXCEPT ![p] = o[2] ]
        /\ ret' = [ ret EXCEPT ![p] = ReturnOfLookup(o[2], o[1]) ]
    /\ pc' = [ pc EXCEPT ![p] = "validate" ]
    /\ calls' = Call(p, "lookup")
    /\ UNCHANGED << registry, badges, entity, scoredAttrs, payloadOk, createRes,
                    badgeRes, snap, changes, outcome, handled, written, emitted >>
    /\ UNCHANGED typedefCalls
    /\ UNCHANGED usernames

\* ------------------------------------------------- the reconciliation steps
\* A new invocation of handler p starts from fresh locals.
Start(p, ok) ==
    /\ payloadOk' = [ payloadOk EXCEPT ![p] = ok ]
    /\ ret' = [ ret EXCEPT ![p] = None ]
    /\ lkRes' = [ lkRes EXCEPT ![p] = "none" ]
    /\ createRes' = [ createRes EXCEPT ![p] = "none" ]
    /\ badgeRes' = [ badgeRes EXCEPT ![p] = "none" ]
    /\ snap' = [ snap EXCEPT ![p] = None ]
    /\ changes' = [ changes EXCEPT ![p] = << >> ]
    /\ outcome' = [ outcome EXCEPT ![p] = "none" ]
    /\ calls' = [ calls EXCEPT ![p] = NoCalls ]
    /\ handled' = [ handled EXCEPT ![p] = @ + 1 ]

\* lambda_handler: the runtime delivers an event to an idle handler instance.
\* LambdaScorer.validate_prerequisites calls _create_cm_if_not_exists first,
\* so a scorer starts with the lookup; the enforcer only checks the payload.
Receive(p, ok) ==
    /\ p \in Handlers
    /\ pc[p] = "idle"
    /\ SumHandled(handled, Procs) < MaxEvents
    /\ Start(p, ok)
    /\ pc' = [ pc EXCEPT ![p] = IF Kind(p) = "scorer" THEN "lookup1" ELSE "validate" ]
    /\ UNCHANGED << registry, badges, entity, cache, scoredAttrs, written, emitted >>
    /\ UNCHANGED typedefCalls
    /\ UNCHANGED usernames

\* Mutant of validate_prerequisites: the schema identifier is not required.
ValidateIgnoresSchema(kind, schemaId, ok) == ok

\* Mutant of validate_prerequisites: the payload checks are left out.
ValidateIgnoresPayload(kind, schemaId, ok) ==
    IF kind = "scorer" THEN schemaId # None ELSE TRUE

\* LambdaScorer.validate_prerequisites (lines 99-103); the enforcer inherits
\* the payload checks alone.
ValidatePrerequisites(kind, schemaId, ok) ==
    IF kind = "scorer" THEN schemaId # None /\ ok ELSE ok

Validate(p) ==
    /\ pc[p] = "validate"
    /\ p \in Handlers
    /\ IF ValidatePrerequisites(Kind(p), ret[p], payloadOk[p])
       THEN /\ pc' = [ pc EXCEPT ![p] = "fetch" ]
            /\ UNCHANGED outcome
       ELSE /\ pc' = [ pc EXCEPT ![p] = "idle" ]
            /\ outcome' = [ outcome EXCEPT ![p] = "no-op" ]
    /\ UNCHANGED << registry, badges, entity, cache, scoredAttrs, payloadOk,
                    provVars, snap, changes, calls, handled, written, emitted >>
    /\ UNCHANGED typedefCalls
    /\ UNCHANGED usernames

\* LambdaScorer.get_current_state: search_attrs IS the module-level list, so
\* extend() grows SCORED_ATTRS itself.
ScorerSearchAttrs(p) == scoredAttrs[p] \o GetAttributesForSearchResults(CM_DAAP)

\* What the fetch of handler p yields: the projected entity, or nothing when
\* the catalog holds no entity by that qualified name any more.
CurrentView(p) ==
    IF ~Exists(entity) THEN None
    ELSE IF Kind(p) = "scorer"
         THEN { GetCurrentViewOfAsset(entity, ScorerSearchAttrs(p), TRUE, TRUE) }
         ELSE { GetCurrentViewOfAsset(entity, REQUIRED_ATTRS, FALSE, FALSE) }

\* Mutant of the check of the fetched snapshot: the policy runs regardless.
AfterFetchIgnoresMissing(current) == "calc"

\* The handler goes on to calculate_changes only with a snapshot; without
\* one the invocation ends.
AfterFetch(current) == IF current = None THEN "idle" ELSE "calc"

GetCurrentState(p) ==
    /\ pc[p] = "fetch"
    /\ IF Kind(p) = "scorer"
       THEN scoredAttrs' = [ scoredAttrs EXCEPT ![p] = ScorerSearchAttrs(p) ]
       ELSE UNCHANGED scoredAttrs
    /\ snap' = [ snap EXCEPT ![p] = CurrentView(p) ]
    /\ pc' = [ pc EXCEPT ![p] = AfterFetch(CurrentView(p)) ]
    /\ outcome' = [ outcome EXCEPT ![p] =
            IF AfterFetch(CurrentView(p)) = "idle" THEN "no-op" ELSE @ ]
    /\ calls' = Call(p, "fetch")
    /\ UNCHANGED << registry, badges, entity, cache, payloadOk, provVars,
                    changes, handled, written, emitted >>
    /\ UNCHANGED typedefCalls
    /\ UNCHANGED usernames

TheSnap(p) == CHOOSE a \in snap[p] : TRUE

CalculateChanges(p) ==
    /\ pc[p] = "calc"
    /\ LET c == IF Kind(p) = "scorer"
                THEN ScorerCalculateChanges(TheSnap(p))
                ELSE EnforcerCalculateChanges(TheSnap(p))
       IN  /\ changes' = [ changes EXCEPT ![p] = c ]
           /\ IF c # << >>
              THEN /\ pc' = [ pc EXCEPT ![p] = "write" ]
                   /\ UNCHANGED outcome
              ELSE /\ pc' = [ pc EXCEPT ![p] = "idle" ]
                   /\ outcome' = [ outcome EXCEPT ![p] = "no-op" ]
    /\ UNCHANGED << registry, badges, entity, cache, scoredAttrs, payloadOk,
                    provVars, snap, calls, handled, written, emitted >>
    /\ UNCHANGED typedefCalls
    /\ UNCHANGED usernames

\* upsert_changes: the change-set is merged into the entity; the catalog
\* emits an event for the change.
UpsertChanges(p) ==
    /\ pc[p] = "write"
    /\ p \in Handlers
    /\ entity' = UpsertMergingCm(entity, changes[p][1])
    /\ written' = [ written EXCEPT ![p] = { changes[p][1] } ]
    /\ outcome' = [ outcome EXCEPT ![p] = "updated" ]
    /\ emitted' = emitted + 1
    /\ pc' = [ pc EXCEPT ![p] = "idle" ]
    /\ calls' = Call(p, "write")
    /\ UNCHANGED << registry, badges, cache, scoredAttrs, payloadOk, provVars,
                    snap, changes, handled >>
    /\ UNCHANGED typedefCalls
    /\ UNCHANGED usernames

\* The write-back is refused by the catalog: nothing changes.
UpsertFails(p) ==
    /\ pc[p] = "write"
    /\ p \in Handlers
    /\ outcome' = [ outcome EXCEPT ![p] = "failed" ]
    /\ pc' = [ pc EXCEPT ![p] = "idle" ]
    /\ calls' = Call(p, "write")
    /\ UNCHANGED << registry, badges, entity, cache, scoredAttrs, payloadOk,
                    provVars, snap, changes, handled, written, emitted >>
    /\ UNCHANGED typedefCalls
    /\ UNCHANGED usernames

\* ------------------------------------------------------- the update script
\* update_cm_on_assets.main: find_asset fetches the asset with the Quality
\* Data attributes ...
FindAsset(p) ==
    /\ p = Updater
    /\ pc[p] = "idle"
    /\ SumHandled(handled, Procs) < MaxEvents
    /\ payloadOk' = [ payloadOk EXCEPT ![p] = TRUE ]
    /\ changes' = [ changes EXCEPT ![p] = << >> ]
    /\ outcome' = [ outcome EXCEPT ![p] = "none" ]
    /\ calls' = [ calls EXCEPT ![p] = [ NoCalls EXCEPT !.fetch = 1 ] ]
    /\ handled' = [ handled EXCEPT ![p] = @ + 1 ]
    /\ snap' = [ snap EXCEPT ![p] =
            { GetCurrentViewOfAsset(entity,
                  GetAttributesForSearchResults(CUSTOM_METADATA_NAME), FALSE, FALSE) } ]
    /\ pc' = [ pc EXCEPT ![p] = "update" ]
    /\ UNCHANGED << registry, badges, entity, cache, scoredAttrs, provVars, written, emitted >>
    /\ UNCHANGED typedefCalls
    /\ UNCHANGED usernames

\* ... and update_custom_metadata writes the rating back.
UpdateCustomMetadata(p, rating, reports) ==
    /\ p = Updater
    /\ pc[p] = "update"
    /\ LET req == UpdateCustomMetadataRequest(TheSnap(p), rating, 10, 5, reports)
       IN  /\ changes' = [ changes EXCEPT ![p] = << req >> ]
           /\ entity' = UpsertMergingCm(entity, req)
           /\ written' = [ written EXCEPT ![p] = { req } ]
    /\ outcome' = [ outcome EXCEPT ![p] = "updated" ]
    /\ emitted' = emitted + 1
    /\ pc' = [ pc EXCEPT ![p] = "idle" ]
    /\ calls' = Call(p, "write")
    /\ UNCHANGED << registry, badges, cache, scoredAttrs, payloadOk, provVars,
                    snap, handled >>
    /\ UNCHANGED typedefCalls
    /\ UNCHANGED usernames

\* ------------------------------------------------------------ specification
Step(p) ==
    \/ FirstLookup(p)
    \/ Create(p)
    \/ UpsertBadge(p)
    \/ SecondLookup(p)
    \/ Validate(p)
    \/ GetCurrentState(p)
    \/ CalculateChanges(p)
    \/ UpsertChanges(p)
    \/ UpsertFails(p)

Next ==
    \/ \E p \in Scorers, ok \in BOOLEAN : Receive(p, ok)
    \/ \E p \in Scorers : Step(p)

\* Concurrent scorer instances provisioning the schema and reconciling.
Spec == Init /\ [][Next]_vars

\* The steps of an invocation once the schema exists.
StepProvisioned(p) ==
    \/ FirstLookup(p)
    \/ Validate(p)
    \/ GetCurrentState(p)
    \/ CalculateChanges(p)
    \/ UpsertChanges(p)
    \/ UpsertFails(p)

NextMerge ==
    \/ \E p \in Handlers, ok \in BOOLEAN : Receive(p, ok)
    \/ \E p \in Handlers : StepProvisioned(p)
    \/ FindAsset(Updater)
    \/ \E rating \in {"OK", "Poor"} :
            UpdateCustomMetadata(Updater, rating, {"https://www.example.com"})

\* Scorers, the enforcer and the update script writing to the same entity
\* concurrently.
SpecMerge == InitProvisioned /\ [][NextMerge]_vars

\* One policy's event chain: the entity's notifications are delivered one at
\* a time to instances of the same handler, each reconciled to its end before
\* the next is delivered; only a write-back emits a further notification.
ChainReceive(p, ok) ==
    /\ \A q \in Procs : pc[q] = "idle"
    /\ \A q \in Handlers : handled[q] > 0 => Kind(q) = Kind(p)
    /\ SumHandled(handled, Procs) < emitted
    /\ Receive(p, ok)

NextChain ==
    \/ \E p \in Handlers, ok \in BOOLEAN : ChainReceive(p, ok)
    \/ \E p \in Handlers : Step(p)

SpecChain == Init /\ [][NextChain]_vars

\* Somebody deletes the entity from the catalog while its events are still
\* being delivered.
DeleteEntity ==
    /\ Exists(entity)
    /\ entity' = NoEntity
    /\ UNCHANGED << registry, badges, cache, scoredAttrs, pc, payloadOk,
                    provVars, snap, changes, outcome, calls, handled, written,
                    emitted >>
    /\ UNCHANGED typedefCalls
    /\ UNCHANGED usernames

NextMissing ==
    \/ \E p \in Handlers, ok \in BOOLEAN : Receive(p, ok)
    \/ \E p \in Handlers : StepProvisioned(p)
    \/ DeleteEntity

\* The handlers reconciling an entity that may be deleted at any moment.
SpecMissing == InitProvisioned /\ [][NextMissing]_vars

\* ---------------------------------------------- the policies on any asset
\* Glossary terms in every combination of what the scorer reads of a term.
TermInputs ==
    { MkAsset("AtlasGlossaryTerm", d, {}, {}, c, {}, {}, see, lnk, ents, rd)
        : d \in Opt({"text"}),
          c \in Opt({"DRAFT", "VERIFIED", "DEPRECATED"}),
          see \in Opt({"term"}),
          lnk \in Opt({"link"}),
          ents \in Opt({"asset"}),
          rd \in Opt({100, 101, 500, 501, 1000, 1001}) }

\* Assets, glossaries and categories in every combination of what the
\* policies read of them.
OtherInputs ==
    { MkAsset(t, d, own, lin, c, terms, tags, {}, {}, {}, {})
        : t \in {"Table", "AtlasGlossary", "AtlasGlossaryCategory"},
          d \in Opt({"text"}),
          own \in Opt({"jane"}),
          lin \in Opt({"yes"}),
          c \in Opt({"DRAFT", "VERIFIED", "DEPRECATED"}),
          terms \in Opt({"term"}),
          tags \in Opt({"pii"}) }

\* The assets calculate_changes is applied to, with no Score stored, with
\* Score 1 or with Score 60.
PolicyInputs ==
    { [ e EXCEPT ![DAAP_SCORE] = s ]
        : e \in TermInputs \cup OtherInputs, s \in Opt({1, 60}) }

InitPolicy ==
    \E i \in Ids :
        InitState([ n \in TypedefNames |-> IF n = CM_DAAP THEN {i} ELSE None ],
                  {CM_ATTR_DAAP_SCORE}, PolicyInputs)

\* LambdaScorer.calculate_changes(asset) applied to the whole asset.
ApplyScorer(p) ==
    /\ p \in Scorers
    /\ snap[p] = None
    /\ snap' = [ snap EXCEPT ![p] = { entity } ]
    /\ changes' = [ changes EXCEPT ![p] = ScorerCalculateChanges(entity) ]
    /\ UNCHANGED << registry, badges, entity, cache, scoredAttrs, pc, payloadOk,
                    provVars, outcome, calls, handled, written, emitted >>
    /\ UNCHANGED typedefCalls
    /\ UNCHANGED usernames

\* LambdaEnforcer.calculate_changes(asset) applied to the whole asset.
ApplyEnforcer ==
    /\ snap[Enforcer] = None
    /\ snap' = [ snap EXCEPT ![Enforcer] = { entity } ]
    /\ changes' = [ changes EXCEPT ![Enforcer] = EnforcerCalculateChanges(entity) ]
    /\ UNCHANGED << registry, badges, entity, cache, scoredAttrs, pc, payloadOk,
                    provVars, outcome, calls, handled, written, emitted >>
    /\ UNCHANGED typedefCalls
    /\ UNCHANGED usernames

NextPolicy ==
    \/ \E p \in Scorers : ApplyScorer(p)
    \/ ApplyEnforcer

\* The two policies as functions of the asset they are given.
SpecPolicy == InitPolicy /\ [][NextPolicy]_vars

\* --------------------------------------------------- the deployment script
\* What the catalog holds before the first run: nothing, or what earlier
\* deployments left (the enumeration, then the structure, then the badge).
InitDeploy ==
    \E i \in Ids, k \in 0..3 :
        InitState([ n \in TypedefNames |->
                        IF (n = ENUM_NAME /\ k >= 1) \/ (n = CUSTOM_METADATA_NAME /\ k >= 2)
                        THEN {i} ELSE None ],
                  IF k = 3 THEN {"Rating"} ELSE {},
                  BaseEntities)

\* Mutant of the enumeration lookup: the cache never finds the enumeration.
EnumCacheNeverFinds(reg) == None

\* EnumCache.get_by_name(ENUM_NAME) at line 28.  Every run of the script is
\* a new process, so the cache is loaded from the registry; the result is
\* the enumeration or None.
EnumCacheGetByName(reg) == reg[ENUM_NAME]

\* CustomMetadataCache.get_id_for_name(CUSTOM_METADATA_NAME) at line 43, in
\* the same new process; None stands for NotFoundError.
StructureIdForName(reg) == reg[CUSTOM_METADATA_NAME]

\* response.assets_created(asset_type=Badge) of client.upsert(badge): the
\* badge when the upsert created it, nothing when it updated an existing one.
AssetsCreated(bdgs, name) == IF name \in bdgs THEN {} ELSE {name}

\* main: a run of the script starts; runs follow each other.
Main ==
    /\ pc[Deployer] \in {"idle", "done", "raised", "asserted"}
    /\ handled[Deployer] < MaxRuns
    /\ handled' = [ handled EXCEPT ![Deployer] = @ + 1 ]
    /\ pc' = [ pc EXCEPT ![Deployer] = "options" ]
    /\ UNCHANGED << registry, badges, entity, cache, scoredAttrs, payloadOk,
                    provVars, snap, changes, outcome, calls, written, emitted,
                    typedefCalls >>
    /\ UNCHANGED usernames

\* client.create_typedef(def) of the typedef called n: the call is counted;
\* the registry refuses a name it already holds and the exception ends the
\* run.
DeployTypedef(n, next) ==
    /\ typedefCalls' = [ typedefCalls EXCEPT ![n] = @ + 1 ]
    /\ IF registry[n] = None
       THEN /\ \E i \in Ids : registry' = [ registry EXCEPT ![n] = {i} ]
            /\ pc' = [ pc EXCEPT ![Deployer] = next ]
       ELSE /\ UNCHANGED registry
            /\ pc' = [ pc EXCEPT ![Deployer] = "raised" ]

create_custom_metadata_options ==
    /\ pc[Deployer] = "options"
    /\ IF EnumCacheGetByName(registry) # None
       THEN /\ pc' = [ pc EXCEPT ![Deployer] = "structure" ]
            /\ UNCHANGED << registry, typedefCalls >>
       ELSE DeployTypedef(ENUM_NAME, "structure")
    /\ UNCHANGED << badges, entity, cache, scoredAttrs, payloadOk, provVars,
                    snap, changes, outcome, calls, handled, written, emitted >>
    /\ UNCHANGED usernames

create_custom_metadata_structure ==
    /\ pc[Deployer] = "structure"
    /\ IF StructureIdForName(registry) # None
       THEN /\ pc' = [ pc EXCEPT ![Deployer] = "badge" ]
            /\ UNCHANGED << registry, typedefCalls >>
       ELSE DeployTypedef(CUSTOM_METADATA_NAME, "badge")
    /\ UNCHANGED << badges, entity, cache, scoredAttrs, payloadOk, provVars,
                    snap, changes, outcome, calls, handled, written, emitted >>
    /\ UNCHANGED usernames

\* create_badge: the upsert creates the badge or updates the existing one;
\* the assertion at line 107 wants a created badge in the response.
create_badge ==
    /\ pc[Deployer] = "badge"
    /\ badges' = badges \cup {"Rating"}
    /\ pc' = [ pc EXCEPT ![Deployer] =
            IF AssetsCreated(badges, "Rating") # {} THEN "done" ELSE "asserted" ]
    /\ UNCHANGED << registry, entity, cache, scoredAttrs, payloadOk, provVars,
                    snap, changes, outcome, calls, handled, written, emitted,
                    typedefCalls >>
    /\ UNCHANGED usernames

NextDeploy ==
    \/ Main
    \/ create_custom_metadata_options
    \/ create_custom_metadata_structure
    \/ create_badge

\* Sequential runs of deploy_branded_cm.main against the same catalog.
SpecDeploy == InitDeploy /\ [][NextDeploy]_vars

\* --------------------------------------------------------- the star script
\* The users of the tenant.
Users == { "ann", "bob" }

\* list_users_in_group: the lists of usernames, repeats included.
UsernameLists == UNION { [ 1..n -> Users ] : n \in 0..MaxUsernames }

\* StarredDetails(asset_starred_by=user, asset_starred_at=at)
StarredDetails(user, at) == [ asset_starred_by |-> user, asset_starred_at |-> at ]

\* What a term holds of stars: nothing at all when nobody ever starred it,
\* else the users who did and one entry for each of them.
StarStates ==
    { << None, None, None >> }
    \cup { << { Range(l) },
              { [ i \in 1..Len(l) |-> StarredDetails(l[i], 0) ] },
              { Len(l) } >>
            : l \in { m \in UsernameLists :
                        \A i, j \in 1..Len(m) : m[i] = m[j] => i = j } }

\* The glossary terms find_assets returns.
StarEntities ==
    { [ MkAsset("AtlasGlossaryTerm", d, {}, {}, {}, {}, {}, {}, {}, {}, {}) EXCEPT
            !["starredBy"] = st[1],
            !["starredDetailsList"] = st[2],
            !["starredCount"] = st[3] ]
        : d \in Opt({"text"}), st \in StarStates }

InitStar ==
    InitState([ n \in TypedefNames |-> None ], {}, StarEntities)

\* The loop of star_asset, lines 64-70, from the i-th username on.
RECURSIVE StarLoop(_, _, _, _, _, _)
StarLoop(us, i, by, details, count, now) ==
    IF i > Len(us) THEN [ by |-> by, details |-> details, count |-> count ]
    ELSE IF us[i] \notin by
         THEN StarLoop(us, i + 1, by \cup { us[i] },
                       Append(details, StarredDetails(us[i], now)), count + 1, now)
         ELSE StarLoop(us, i + 1, by, details, count, now)

\* star_asset raises TypeError: len() of an unset starred_details_list at
\* line 62, or `user not in` an unset starred_by at line 65.
StarRaises(a, us) ==
    \/ a["starredDetailsList"] = None
    \/ a["starredBy"] = None /\ us # << >>

\* star_asset, lines 60-74: the asset given to client.save.
StarAssetUpdate(a, us, now) ==
    LET details == CHOOSE l \in a["starredDetailsList"] : TRUE
        by == IF a["starredBy"] = None THEN {}
              ELSE CHOOSE b \in a["starredBy"] : TRUE
        r == StarLoop(us, 1, by, details, Len(details), now)
    IN  [ TrimToRequired(a) EXCEPT
            !["starredDetailsList"] = { r.details },
            !["starredCount"] = { r.count },
            !["starredBy"] = IF a["starredBy"] = None THEN None ELSE { r.by } ]

\* main, lines 82-83: find_assets fetches the term with its stars and
\* list_users_in_group gives the usernames.
StarMain ==
    /\ pc[Starrer] \in {"idle", "raised"}
    /\ handled[Starrer] < MaxRuns
    /\ handled' = [ handled EXCEPT ![Starrer] = @ + 1 ]
    /\ snap' = [ snap EXCEPT ![Starrer] =
            { GetCurrentViewOfAsset(entity,
                  << "starredDetailsList", "starredBy", "anchor" >>, FALSE, FALSE) } ]
    /\ usernames' \in UsernameLists
    /\ written' = [ written EXCEPT ![Starrer] = None ]
    /\ outcome' = [ outcome EXCEPT ![Starrer] = "none" ]
    /\ pc' = [ pc EXCEPT ![Starrer] = "star" ]
    /\ UNCHANGED << registry, badges, entity, cache, scoredAttrs, payloadOk,
                    provVars, changes, calls, emitted, typedefCalls >>

\* star_asset(asset, usernames): the update is saved, unless the function
\* raised before.
StarAsset ==
    /\ pc[Starrer] = "star"
    /\ IF StarRaises(TheSnap(Starrer), usernames)
       THEN /\ pc' = [ pc EXCEPT ![Starrer] = "raised" ]
            /\ outcome' = [ outcome EXCEPT ![Starrer] = "failed" ]
            /\ UNCHANGED << entity, written, emitted >>
       ELSE LET upd == StarAssetUpdate(TheSnap(Starrer), usernames, handled[Starrer])
            IN  /\ entity' = UpsertMergingCm(entity, upd)
                /\ written' = [ written EXCEPT ![Starrer] = { upd } ]
                /\ outcome' = [ outcome EXCEPT ![Starrer] = "updated" ]
                /\ emitted' = emitted + 1
                /\ pc' = [ pc EXCEPT ![Starrer] = "idle" ]
    /\ UNCHANGED << registry, badges, cache, scoredAttrs, payloadOk, provVars,
                    snap, changes, calls, handled, typedefCalls, usernames >>

NextStar ==
    \/ StarMain
    \/ StarAsset

\* Sequential runs of and_star_assets.main on one glossary term.
SpecStar == InitStar /\ [][NextStar]_vars

\* ------------------------------------------------------------------ claims
\* The provisioning call of p's current invocation has returned.
Provisioned(p) ==
    /\ p \in Scorers
    /\ handled[p] > 0
    /\ pc[p] \notin {"lookup1", "create", "badge", "lookup2", "lookup3"}

\* p's current invocation has ended.
Finished(p) == handled[p] > 0 /\ pc[p] = "idle"

\* No collaborator call of p's provisioning failed other than by NotFoundError
\* or ConflictError.
NoOtherError(p) == createRes[p] # "error" /\ lkRes[p] # "error"

Creators == { p \in Scorers : createRes[p] = "ok" }

\* The attributes a policy changes.
PolicyFields(kind) ==
    CASE kind = "scorer" -> { DAAP_SCORE }
      [] kind = "enforcer" -> { "certificateStatus", "certificateStatusMessage" }
      [] OTHER -> { CUSTOM_METADATA_NAME }

\* Write-backs that have succeeded so far.
Updates == emitted - InitialEvents

\* C1: provisioning convergence.  Among concurrent scorer invocations racing
\* to provision DaaP, with every create after the first rejected by
\* ConflictError and no other collaborator error, at most one create_typedef
\* succeeds, exactly one when all of them found the name unseen, and every
\* caller returns the registry's identifier, never None.
C1_ProvisioningConvergence ==
    /\ Cardinality(Creators) <= 1
    /\ \A p \in Scorers :
          Provisioned(p) /\ NoOtherError(p)
              => ret[p] # None /\ ret[p] = registry[CM_DAAP]
    /\ (\A p \in Scorers :
            /\ handled[p] = 1
            /\ Provisioned(p)
            /\ createRes[p] \in {"ok", "conflict"}
            /\ NoOtherError(p))
          => Cardinality(Creators) = 1

\* C1 witness: two invocations raced, one created, the other hit the conflict,
\* and both returned the same identifier.
C1_Witness ==
    \E p, q \in Scorers :
        /\ p # q
        /\ Provisioned(p) /\ Provisioned(q)
        /\ createRes[p] = "ok" /\ createRes[q] = "conflict"
        /\ ret[p] # None /\ ret[p] = ret[q]

\* C2: idempotent write suppression.  When the Score stored on the fetched
\* snapshot equals the recomputed Score, the scorer's reconcile ends in no-op
\* and issues no write-back.
C2_IdempotentWriteSuppression ==
    \A p \in Scorers :
        /\ snap[p] # None
        /\ pc[p] # "calc"
        /\ TheSnap(p)[DAAP_SCORE] = { ComputeScore(TheSnap(p)) }
        => /\ pc[p] = "idle"
           /\ outcome[p] = "no-op"
           /\ changes[p] = << >>
           /\ calls[p].write = 0

\* C2 witness: a scorer fetched an entity whose stored Score is the one it
\* recomputes, and ended in no-op.
C2_Witness ==
    \E p \in Scorers :
        /\ Finished(p)
        /\ snap[p] # None
        /\ TheSnap(p)[DAAP_SCORE] = { ComputeScore(TheSnap(p)) }
        /\ outcome[p] = "no-op"

\* C3: no feedback amplification.  In one policy's event chain at most one
\* write-back succeeds, and once it has, no later invocation reaches the
\* write-back step (each ends in no-op), so the chain ends.
C3_NoFeedbackAmplification ==
    /\ Updates <= 1
    /\ Updates = 1 => \A p \in Handlers : pc[p] # "write"

\* C3 witness: an instance updated the entity and the event of its own
\* write-back was then reconciled (fetched and recomputed) to a no-op.
C3_Witness ==
    \E p \in Handlers :
        /\ Updates = 1
        /\ handled[p] = 2
        /\ Finished(p)
        /\ snap[p] # None
        /\ written[p] # None
        /\ outcome[p] = "no-op"

\* C4: conflict recovery.  After create_typedef's ConflictError the lookup is
\* run again (a second get_id_for_name call) and its identifier is what
\* _create_cm_if_not_exists returns.
C4_ConflictRecovery ==
    \A p \in Scorers :
        Provisioned(p) /\ createRes[p] = "conflict"
            => /\ calls[p].lookup = 2
               /\ lkRes[p] = "found" => ret[p] # None /\ ret[p] = cache[p]

\* C4 witness: an invocation hit the conflict and returned the identifier.
C4_Witness ==
    \E p \in Scorers :
        /\ Provisioned(p)
        /\ createRes[p] = "conflict"
        /\ lkRes[p] = "found"
        /\ ret[p] = registry[CM_DAAP]
        /\ ret[p] # None

\* C5 (as claimed): an invocation whose prerequisite validation failed has
\* issued no create_typedef, no badge upsert and no write-back.
C5_PrerequisiteFailureNoSideEffects ==
    \A p \in Scorers :
        Finished(p) /\ ~ValidatePrerequisites(Kind(p), ret[p], payloadOk[p])
            => /\ outcome[p] = "no-op"
               /\ calls[p].create = 0
               /\ calls[p].badge = 0
               /\ calls[p].write = 0

\* C6 (as claimed): the module-level SCORED_ATTRS list of every scorer
\* instance is the one the module defines, whatever events it has handled.
C6_ScoredAttrsUnchanged ==
    \A p \in Scorers : scoredAttrs[p] = SCORED_ATTRS

TheWritten(p) == CHOOSE c \in written[p] : TRUE

\* C7: merge write-back does not clobber.  Whenever two writers (scorer,
\* enforcer, update script) have written change-sets that share no attribute
\* besides the identifying ones, the entity holds every value either wrote.
C7_MergeDoesNotClobber ==
    \A p, q \in Procs :
        /\ written[p] # None
        /\ written[q] # None
        /\ (Carried(TheWritten(p)) \cap Carried(TheWritten(q))) \subseteq RequiredFields
        => /\ \A f \in Carried(TheWritten(p)) : entity[f] = TheWritten(p)[f]
           /\ \A f \in Carried(TheWritten(q)) : entity[f] = TheWritten(q)[f]

\* C7 witness: the enforcer and a second writer (a scorer or the update
\* script) both wrote, and the entity shows the demotion and the other value.
C7_Witness ==
    \E p \in Procs \ {Enforcer} :
        /\ written[p] # None
        /\ written[Enforcer] # None
        /\ entity["certificateStatus"] = {"DRAFT"}
        /\ \E f \in CustomMetadataFields :
              f \in Carried(TheWritten(p)) /\ entity[f] = TheWritten(p)[f]

\* C8: minimal change-set.  Every change-set a handler computes carries the
\* policy's attributes (certificate status and message for the enforcer, the
\* DaaP Score for the scorer), the snapshot's identifying attributes, and
\* nothing else.
C8_MinimalChangeSet ==
    \A p \in Handlers :
        \A i \in 1..Len(changes[p]) :
            /\ Carried(changes[p][i]) = RequiredFields \cup PolicyFields(Kind(p))
            /\ \A f \in RequiredFields : changes[p][i][f] = TheSnap(p)[f]

\* C8 witness: a handler is about to write a change-set computed from a
\* snapshot that holds further attributes.
C8_Witness ==
    \E p \in Handlers :
        /\ pc[p] = "write"
        /\ Len(changes[p]) = 1
        /\ Carried(TheSnap(p)) \ (RequiredFields \cup PolicyFields(Kind(p))) # {}

\* C9: badge creation is best-effort.  After a successful create_typedef and
\* a failed badge upsert the identifier is still looked up and, unless that
\* lookup itself fails, returned; the prerequisite check then depends on the
\* payload alone.
C9_BadgeBestEffort ==
    \A p \in Scorers :
        Provisioned(p) /\ createRes[p] = "ok" /\ badgeRes[p] = "fail" /\ lkRes[p] # "error"
            => /\ ret[p] # None
               /\ ret[p] = registry[CM_DAAP]
               /\ ValidatePrerequisites(Kind(p), ret[p], payloadOk[p]) = payloadOk[p]
               /\ Finished(p) /\ payloadOk[p] => calls[p].fetch = 1

\* C9 witness: the badge upsert failed and the invocation went on to fetch.
C9_Witness ==
    \E p \in Scorers :
        /\ createRes[p] = "ok"
        /\ badgeRes[p] = "fail"
        /\ ret[p] # None
        /\ pc[p] = "calc"

\* What C10 says of a state: after a create_typedef error other than the
\* conflict, nothing is returned, no badge upsert, fetch or write-back is
\* issued, the reconcile ends in no-op, and nothing is cached.
AfterCreateError(p) ==
    createRes[p] = "error"
        => /\ ret[p] = None
           /\ cache[p] = None
           /\ pc[p] \in {"validate", "idle"}
           /\ pc[p] = "idle" => outcome[p] = "no-op"
           /\ calls[p].badge = 0 /\ calls[p].fetch = 0 /\ calls[p].write = 0

\* C10: a non-conflict creation failure means prerequisites unmet: the above
\* holds in every state a step leads to, and the next event of an idle
\* instance starts again at the lookup.
C10_CreateFailureIsNoOp ==
    [][ \A p \in Scorers :
            /\ AfterCreateError(p)'
            /\ (pc[p] = "idle" /\ pc'[p] # "idle") => pc'[p] = "lookup1" ]_vars

\* C10 witness: create_typedef failed for an event with a valid payload and
\* the reconcile ended in no-op.
C10_Witness ==
    \E p \in Scorers :
        /\ Finished(p)
        /\ createRes[p] = "error"
        /\ payloadOk[p]
        /\ outcome[p] = "no-op"

\* C11: when the fetch of the current state yields nothing (the entity has
\* been deleted), the invocation ends in no-op: the policy is not invoked, no
\* change-set exists and no write-back is issued.
C11_MissingEntityTolerance ==
    \A p \in Handlers :
        (calls[p].fetch = 1 /\ snap[p] = None) =>
            /\ pc[p] = "idle"
            /\ outcome[p] = "no-op"
            /\ changes[p] = << >>
            /\ calls[p].write = 0

\* A scorer and the enforcer have each fetched a deleted entity and ended in
\* no-op.
C11_Witness ==
    /\ ~Exists(entity)
    /\ \E p \in Scorers :
        calls[p].fetch = 1 /\ snap[p] = None /\ outcome[p] = "no-op"
    /\ calls[Enforcer].fetch = 1
    /\ snap[Enforcer] = None
    /\ outcome[Enforcer] = "no-op"

\* C12: an event whose payload is not an entity payload, or whose asset is
\* not an asset, ends in no-op whatever the schema provisioning did: no
\* failure is surfaced, nothing is fetched, nothing is written back.
C12_UnsupportedPayloadIsNoOp ==
    \A p \in Scorers :
        /\ (Finished(p) /\ ~payloadOk[p]) =>
                /\ outcome[p] = "no-op"
                /\ calls[p].fetch = 0
                /\ calls[p].write = 0
        /\ (handled[p] > 0 /\ ~payloadOk[p]) =>
                /\ outcome[p] \in {"none", "no-op"}
                /\ pc[p] \notin {"fetch", "calc", "write"}

\* Unsupported payloads have ended in no-op after a provisioning that
\* succeeded and after one that failed.
C12_Witness ==
    \E p, q \in Scorers :
        /\ Finished(p) /\ ~payloadOk[p] /\ outcome[p] = "no-op"
        /\ createRes[p] = "ok" /\ ret[p] # None
        /\ Finished(q) /\ ~payloadOk[q] /\ outcome[q] = "no-op"
        /\ lkRes[q] = "error" /\ ret[q] = None

\* C13: when create_typedef failed with a conflict and the lookup run again
\* failed too, _create_cm_if_not_exists propagates a failure: the invocation
\* does not end as an ordinary no-op.
C13_FailureAfterConflictPropagated ==
    \A p \in Scorers :
        (Finished(p) /\ createRes[p] = "conflict" /\ lkRes[p] # "found") =>
            outcome[p] = "failed"

\* C14: a scorer invocation goes past its prerequisites, and so to the
\* write-back of DaaP Score, only with the identifier of a DaaP schema that
\* exists in the registry; the entity carries a Score only once the schema
\* exists.
C14_SchemaBeforeWrite ==
    /\ \A p \in Scorers :
        (handled[p] > 0 /\ (pc[p] \in {"fetch", "calc", "write"} \/ calls[p].fetch > 0)) =>
            /\ registry[CM_DAAP] # None
            /\ ret[p] = registry[CM_DAAP]
    /\ entity[DAAP_SCORE] # None => registry[CM_DAAP] # None

\* A scorer that created the schema itself is about to write the Score back.
C14_Witness ==
    \E p \in Scorers :
        /\ pc[p] = "write"
        /\ createRes[p] = "ok"
        /\ changes[p][1][DAAP_SCORE] # None
        /\ ret[p] = registry[CM_DAAP]

\* The steps of _create_cm_if_not_exists.
ProvisionStep(p) ==
    \/ FirstLookup(p)
    \/ Create(p)
    \/ UpsertBadge(p)
    \/ SecondLookup(p)

\* C15: one invocation of _create_cm_if_not_exists issues at most two
\* lookups, at most one create_typedef and at most one badge upsert, none of
\* the last two when the first lookup finds the schema, and it can always
\* take its next step until it returns.
C15_NoInternalRetry ==
    \A p \in Scorers :
        /\ calls[p].lookup <= 2
        /\ calls[p].create <= 1
        /\ calls[p].badge <= 1
        /\ (calls[p].lookup = 1 /\ lkRes[p] = "found") =>
                /\ calls[p].create = 0
                /\ calls[p].badge = 0
                /\ Provisioned(p)
        /\ (handled[p] > 0 /\ ~Provisioned(p)) => ENABLED ProvisionStep(p)

\* One invocation has returned on the fast path, another after a lookup, a
\* create, a badge upsert and a second lookup.
C15_Witness ==
    \E p, q \in Scorers :
        /\ Provisioned(p) /\ calls[p].lookup = 1 /\ lkRes[p] = "found"
        /\ calls[p].create = 0
        /\ Provisioned(q) /\ calls[q].lookup = 2 /\ calls[q].create = 1
        /\ calls[q].badge = 1

C17_EnforcerPolicy ==
    (snap[Enforcer] # None /\ pc[Enforcer] = "idle" /\ handled[Enforcer] = 0) =>
        LET a == TheSnap(Enforcer)
            c == changes[Enforcer]
            lacking == \/ a["description"] = None
                       \/ a["owners"] = None
                       \/ a["lineage"] = None
        IN  /\ Len(c) <= 1
            /\ Len(c) = 1 <=> (a["certificateStatus"] = {"VERIFIED"} /\ lacking)
            /\ Len(c) = 1 =>
                /\ c[1]["certificateStatus"] = {"DRAFT"}
                /\ c[1]["certificateStatusMessage"] = {ENFORCEMENT_MESSAGE}
                /\ Carried(c[1]) = RequiredFields
                        \cup {"certificateStatus", "certificateStatusMessage"}
                /\ \A f \in RequiredFields : c[1][f] = a[f]

\* The enforcer was given a verified table with description and owner but
\* no lineage, and returned one change-set.
C17_Witness ==
    /\ snap[Enforcer] # None
    /\ handled[Enforcer] = 0
    /\ TheSnap(Enforcer)["typeName"] = {"Table"}
    /\ TheSnap(Enforcer)["certificateStatus"] = {"VERIFIED"}
    /\ TheSnap(Enforcer)["description"] # None
    /\ TheSnap(Enforcer)["owners"] # None
    /\ TheSnap(Enforcer)["lineage"] = None
    /\ Len(changes[Enforcer]) = 1

\* C18: for a glossary or a category (a type name starting with
\* "AtlasGlossary" that is not a term) the scorer's calculate_changes returns
\* no change-set, so no Score is written for it.
C18_GlossariesNotScored ==
    \A p \in Scorers :
        (snap[p] # None /\ pc[p] = "idle" /\ handled[p] = 0
            /\ StartsWithAtlasGlossary(TheSnap(p)) /\ ~IsTerm(TheSnap(p))) =>
                changes[p] = << >>

C20_CreateBadgeIdempotent ==
    /\ pc[Deployer] # "asserted"
    /\ (handled[Deployer] >= 2 /\ pc[Deployer] \notin {"options", "structure", "badge"})
            => pc[Deployer] = "done"

\* The stars of an asset: who starred it and the entries, empty when unset.
StarsBy(a) == IF a["starredBy"] = None THEN {} ELSE CHOOSE b \in a["starredBy"] : TRUE

StarsDetails(a) ==
    IF a["starredDetailsList"] = None THEN << >>
    ELSE CHOOSE l \in a["starredDetailsList"] : TRUE

\* The number of entries of user u in the list d.
EntriesOf(d, u) == Cardinality({ i \in 1..Len(d) : d[i].asset_starred_by = u })

\* C21: for every asset and every list of usernames, star_asset saves an
\* update that has every listed user in starred_by, one new entry for each
\* listed user who had not starred the asset and none for the others, all
\* earlier stars kept, and starred_count equal to the length of the saved
\* list.
C21_StarAssetEnsuresStars ==
    (handled[Starrer] > 0 /\ pc[Starrer] # "star") =>
        /\ written[Starrer] # None
        /\ LET a == TheSnap(Starrer)
               u == CHOOSE w \in written[Starrer] : TRUE
           IN  /\ Range(usernames) \subseteq StarsBy(u)
               /\ StarsBy(a) \subseteq StarsBy(u)
               /\ SubSeq(StarsDetails(u), 1, Len(StarsDetails(a))) = StarsDetails(a)
               /\ \A x \in Users :
                    EntriesOf(StarsDetails(u), x) - EntriesOf(StarsDetails(a), x)
                        = IF x \in Range(usernames) /\ x \notin StarsBy(a) THEN 1 ELSE 0
               /\ u["starredCount"] = { Len(StarsDetails(u)) }

\* C22: among concurrent provisioning invocations only the one whose
\* create_typedef succeeded issues a badge upsert.  A step that issues a
\* badge upsert is taken by the only invocation that created the schema; a
\* create_typedef succeeds only while the registry lacks the schema, which it
\* never loses again; an invocation that met a conflict, an error or the fast
\* path has issued no badge upsert.
C22_OneBadgeCreationPerSchema ==
    [][ /\ registry[CM_DAAP] # None => registry'[CM_DAAP] = registry[CM_DAAP]
        /\ \A p \in Scorers :
            /\ calls'[p].badge > calls[p].badge =>
                    /\ createRes[p] = "ok"
                    /\ Creators = {p}
                    /\ calls[p].badge = 0
            /\ (createRes'[p] = "ok" /\ createRes[p] # "ok") =>
                    registry[CM_DAAP] = None
            /\ createRes'[p] \in {"conflict", "error"} => calls'[p].badge = 0
            /\ (calls'[p].lookup = 1 /\ lkRes'[p] = "found") => calls'[p].badge = 0
      ]_vars

\* Two invocations raced for the unseen schema: one created it and upserted
\* the badge, the other met the conflict and issued no badge upsert.
C22_Witness ==
    \E p, q \in Scorers :
        /\ Provisioned(p) /\ createRes[p] = "ok" /\ calls[p].badge = 1
        /\ Provisioned(q) /\ createRes[q] = "conflict" /\ calls[q].badge = 0
        /\ ret[q] = registry[CM_DAAP]

\* C23: whatever the asset has of description, owners, terms, tags, lineage,
\* links, related terms, related assets, certificate status and readme
\* length, the Score that calculate_changes computes, and the one it writes,
\* is an integer between 0 and 100.
C23_ScoreRange ==
    \A p \in Scorers :
        (snap[p] # None /\ pc[p] = "idle" /\ handled[p] = 0) =>
            /\ ComputeScore(TheSnap(p)) \in 0..100
            /\ Len(changes[p]) <= 1
            /\ Len(changes[p]) = 1 =>
                /\ changes[p][1][DAAP_SCORE] = { ComputeScore(TheSnap(p)) }
                /\ changes[p][1][DAAP_SCORE] \subseteq 0..100

\* The scorer was given a term that has everything and wrote Score 100.
C23_Witness ==
    \E p \in Scorers :
        /\ snap[p] # None
        /\ handled[p] = 0
        /\ IsTerm(TheSnap(p))
        /\ TheSnap(p)["readme"] = {1001}
        /\ Len(changes[p]) = 1
        /\ changes[p][1][DAAP_SCORE] = {100}

====
